---------------------------- MODULE Spec2Model ----------------------------
(***************************************************************************)
(* Cause and effect repertoires of cyphi's Subsystem                       *)
(* (src/cyphi/subsystem.py).                                               *)
(*                                                                         *)
(* A tensor of numpy is modelled exactly: `axes` is the set of axes of     *)
(* size 2 (every other axis is a singleton), `val` gives an integer        *)
(* numerator for every joint index of those axes, and `den` is the         *)
(* denominator shared by all entries, so that the entry at s is            *)
(* val[s] / den.  A network of N nodes gives the axes 0 .. N-1; the        *)
(* 2N-axis tensors of effect_repertoire use 0 .. N-1 for the block indexed *)
(* by the current network state and N .. 2N-1 for the block indexed by the *)
(* purview's future state.                                                 *)
(***************************************************************************)
EXTENDS Integers, FiniteSets, Sequences, TLC

\* Number of nodes of the network (network.size).
N == 2

Nodes == 0 .. (N - 1)

Bit == {0, 1}

\* The binary state vectors of the network.
States == [Nodes -> Bit]

\* The rules the networks' tables are filled by.
Rules == {"chain", "majority", "ring", "mixed"}

VARIABLES
    network,         \* self.network: network[i] is the table of node i
    nodes,           \* self.nodes
    current_state,   \* self.current_state
    past_state,      \* self.past_state
    external_nodes,  \* self.external_nodes
    last,            \* the latest call on the subsystem and what it returned
    repeated         \* whether that call had the arguments of the call before it

vars == <<network, nodes, current_state, past_state, external_nodes, last, repeated>>

-----------------------------------------------------------------------------
(* Arithmetic helpers *)

RECURSIVE SumFn(_, _)
SumFn(f, S) ==
    IF S = {} THEN 0
    ELSE LET x == CHOOSE y \in S : TRUE IN f[x] + SumFn(f, S \ {x})

RECURSIVE ProdFn(_, _)
ProdFn(f, S) ==
    IF S = {} THEN 1
    ELSE LET x == CHOOSE y \in S : TRUE IN f[x] * ProdFn(f, S \ {x})

RECURSIVE Pow2(_)
Pow2(k) == IF k = 0 THEN 1 ELSE 2 * Pow2(k - 1)

Range(seq) == {seq[i] : i \in DOMAIN seq}

\* The number of nodes that are ON in state s.
OnCount(s) == Cardinality({i \in Nodes : s[i] = 1})

-----------------------------------------------------------------------------
(* Network and Node *)

\* Numerator, over the denominator 2, of the probability that node i is ON at
\* the next step when the network is in state s:
\*   chain     node 0 is ON with probability 1/2, node i copies node i-1;
\*   majority  ON for certain when all nodes are ON, never when none is,
\*             with probability 1/2 otherwise;
\*   ring      node i negates node i+1;
\*   mixed     node i is ON with probability (s[i] + 1 - s[i+1]) / 2.
RuleEntry(rule, i, s) ==
    CASE rule = "chain"    -> IF i = 0 THEN 1 ELSE 2 * s[i - 1]
      [] rule = "majority" -> IF OnCount(s) = 0 THEN 0
                              ELSE IF OnCount(s) = N THEN 2 ELSE 1
      [] rule = "ring"     -> 2 * (1 - s[(i + 1) % N])
      [] rule = "mixed"    -> s[i] + (1 - s[(i + 1) % N])

\* The networks the subsystems are built on: a table of probabilities in
\* [0, 1] for every node.
Networks == {[i \in Nodes |-> [s \in States |-> RuleEntry(rule, i, s)]] : rule \in Rules}

\* node.tpm: a tensor of shape (2,) * N.
NodeTpm(i) ==
    [axes |-> Nodes, val |-> network[i], den |-> 2]

\* network == other.network
NetworkEq(a, b) == a = b

-----------------------------------------------------------------------------
(* Tensor operations *)

Index(A) == [A -> Bit]

Restrict(s, A) == [a \in A |-> s[a]]

Extend(s, x, v) == [a \in (DOMAIN s) \cup {x} |-> IF a = x THEN v ELSE s[a]]

\* np.ones(shape)
Ones(A) == [axes |-> A, val |-> [s \in Index(A) |-> 1], den |-> 1]

\* 1 - tpm
Complement(t) ==
    [axes |-> t.axes, val |-> [s \in Index(t.axes) |-> t.den - t.val[s]], den |-> t.den]

\* np.multiply(a, b), singleton axes broadcast against axes of size 2.
Multiply(a, b) ==
    LET A == a.axes \cup b.axes
    IN  [axes |-> A,
         val  |-> [s \in Index(A) |->
                     a.val[Restrict(s, a.axes)] * b.val[Restrict(s, b.axes)]],
         den  |-> a.den * b.den]

\* np.sum(t), as a numerator over t.den.
TotalSum(t) == SumFn(t.val, Index(t.axes))

\* utils.marginalize_out(node, tpm): the node's axis becomes a singleton
\* holding the average of its two slices; a singleton axis is left alone.
MarginalizeOut(x, t) ==
    IF x \notin t.axes THEN t
    ELSE [axes |-> t.axes \ {x},
          val  |-> [s \in Index(t.axes \ {x}) |->
                      t.val[Extend(s, x, 0)] + t.val[Extend(s, x, 1)]],
          den  |-> 2 * t.den]

\* utils.max_entropy_distribution(purview, network)
MaxEntropyDistribution(purview) ==
    [axes |-> purview, val |-> [s \in Index(purview) |-> 1],
     den |-> Pow2(Cardinality(purview))]

\* tpm[..., [v], ...]: the axis x is collapsed onto its slice v and stays as
\* a singleton.
TakeSlice(t, x, v) ==
    [axes |-> t.axes \ {x},
     val  |-> [s \in Index(t.axes \ {x}) |-> t.val[Extend(s, x, v)]],
     den  |-> t.den]


\* np.array([]): what cause_repertoire returns for an empty purview.
EmptyArray == [kind |-> "empty"]

\* An indexing expression that raised IndexError.
IndexError == [kind |-> "IndexError"]

\* A reshape that raised ValueError.
ReshapeError == [kind |-> "ValueError"]

IsTensor(v) == "val" \in DOMAIN v

-----------------------------------------------------------------------------
(* Subsystem.cause_repertoire *)

\* The node's table conditioned on the node's own current state.
ConditionedTpm(m) ==
    IF current_state[m] = 1 THEN NodeTpm(m)
    ELSE Complement(NodeTpm(m))

\* Faulty variant: a node outside the subsystem fixed to its current state.
CollapseNonPastInputCurrent(x, t) ==
    IF x \in nodes THEN MarginalizeOut(x, t)
    ELSE TakeSlice(t, x, current_state[x])

\* One step of the loop over the nodes that are not in the purview: a node of
\* the subsystem is marginalized out, a node outside it is fixed to its past
\* state.
CollapseNonPastInput(x, t) ==
    IF x \in nodes THEN MarginalizeOut(x, t)
    ELSE TakeSlice(t, x, past_state[x])

\* The loop over set(network.nodes) - set(purview).
RECURSIVE CollapseNonPastInputs(_, _)
CollapseNonPastInputs(S, t) ==
    IF S = {} THEN t
    ELSE LET x == CHOOSE y \in S : TRUE
         IN  CollapseNonPastInputs(S \ {x}, CollapseNonPastInput(x, t))

\* The loop over the mechanism's nodes, in the order of the list.
RECURSIVE AccumulateCause(_, _, _)
AccumulateCause(mechanism, purview, acc) ==
    IF mechanism = <<>> THEN acc
    ELSE AccumulateCause(Tail(mechanism), purview,
            Multiply(acc, CollapseNonPastInputs(Nodes \ purview,
                                                ConditionedTpm(Head(mechanism)))))

\* Faulty variant: the division without the test for a zero total.
NormalizeUnguarded(t) == [t EXCEPT !.den = TotalSum(t)]

\* Division by the total, skipped when the total is zero.
Normalize(t) ==
    IF TotalSum(t) # 0 THEN [t EXCEPT !.den = TotalSum(t)] ELSE t

\* Faulty variant: the empty-mechanism shortcut tested before the empty purview.
CauseRepertoireMechanismFirst(mechanism, purview) ==
    IF Len(mechanism) = 0 THEN MaxEntropyDistribution(purview)
    ELSE IF Cardinality(purview) = 0 THEN EmptyArray
    ELSE Normalize(AccumulateCause(mechanism, purview, Ones(purview)))

CauseRepertoire(mechanism, purview) ==
    IF Cardinality(purview) = 0 THEN EmptyArray
    ELSE IF Len(mechanism) = 0 THEN MaxEntropyDistribution(purview)
    ELSE Normalize(AccumulateCause(mechanism, purview, Ones(purview)))

\* The nodes whose table a call of cause_repertoire reads.
CauseTpmReads(mechanism, purview) ==
    IF Cardinality(purview) = 0 THEN {}
    ELSE IF Len(mechanism) = 0 THEN {}
    ELSE Range(mechanism)

\* The accumulated product of the mechanism's conditioned tables before it is
\* normalized.
CauseAccumulated(mechanism, purview) ==
    AccumulateCause(mechanism, purview, Ones(purview))

-----------------------------------------------------------------------------
(* Subsystem.effect_repertoire *)

\* The 2N-axis table of a purview node: the full table over the current
\* states, with 1 - node.tpm at 0 and node.tpm at 1 of the node's future axis.
PurviewTpm(p) ==
    LET A == Nodes \cup {N + p}
    IN  [axes |-> A,
         val  |-> [s \in Index(A) |->
                     IF s[N + p] = 1
                     THEN NodeTpm(p).val[Restrict(s, Nodes)]
                     ELSE Complement(NodeTpm(p)).val[Restrict(s, Nodes)]],
         den  |-> NodeTpm(p).den]

\* The loop over set(self.nodes) - set(mechanism).
RECURSIVE MarginalizeNonPastInputs(_, _)
MarginalizeNonPastInputs(S, t) ==
    IF S = {} THEN t
    ELSE LET x == CHOOSE y \in S : TRUE
         IN  MarginalizeNonPastInputs(S \ {x}, MarginalizeOut(x, t))

\* The loop over the purview's nodes.
RECURSIVE AccumulateEffect(_, _, _)
AccumulateEffect(mechanism, P, acc) ==
    IF P = {} THEN acc
    ELSE LET p == CHOOSE y \in P : TRUE
         IN  AccumulateEffect(mechanism, P \ {p},
                Multiply(acc, MarginalizeNonPastInputs(nodes \ Range(mechanism),
                                                       PurviewTpm(p))))

\* The nodes whose current state is conditioned on.
ConditionedNodes(mechanism) == Range(mechanism) \cup external_nodes

\* Faulty variant: the conditioned nodes fixed to their past state.
ConditioningStatePast(x) == past_state[x]

\* The state each of them is fixed to.
ConditioningState(x) == current_state[x]

\* accumulated_cjd[tuple(conditioning_indices)]: index ConditioningState(x) on
\* the current-state axis of every conditioned node; index 1 on a singleton
\* axis is out of bounds.
Condition(mechanism, acc) ==
    LET F == ConditionedNodes(mechanism)
        A == acc.axes \ F
    IN  IF \E x \in F : x \notin acc.axes /\ ConditioningState(x) # 0
        THEN IndexError
        ELSE [axes |-> A,
              val  |-> [s \in Index(A) |->
                          acc.val[[a \in acc.axes |->
                                     IF a \in F THEN ConditioningState(a) ELSE s[a]]]],
              den  |-> acc.den]

\* reshape(shape[N : 2N]): the current-state block, all singleton, is dropped.
DropCurrentBlock(t) ==
    IF ~ IsTensor(t) THEN t
    ELSE IF \E a \in t.axes : a < N THEN ReshapeError
    ELSE LET A == {a - N : a \in t.axes}
         IN  [axes |-> A,
              val  |-> [s \in Index(A) |-> t.val[[a \in t.axes |-> s[a - N]]]],
              den  |-> t.den]

EffectRepertoire(mechanism, purview) ==
    DropCurrentBlock(Condition(mechanism,
                               AccumulateEffect(mechanism, purview, Ones({}))))

-----------------------------------------------------------------------------
(* The forms without a mechanism *)

\* Faulty variant: the unconstrained cause repertoire taken from the effect side.
UcCauseRepertoireViaEffect(purview) == EffectRepertoire(<<>>, purview)

UcCauseRepertoire(purview) == CauseRepertoire(<<>>, purview)

UnconstrainedEffectRepertoire(purview) == EffectRepertoire(<<>>, purview)

-----------------------------------------------------------------------------
(* Subsystem.__eq__ and Subsystem.__hash__ *)

\* The subsystem as an object.
Self ==
    [nodes |-> nodes, current_state |-> current_state,
     past_state |-> past_state, network |-> network]

\* a == b on two numpy arrays: the array of the elementwise comparisons.
ArrayEq(a, b) == [i \in Nodes |-> a[i] = b[i]]

\* bool(array), as `and` applies it: the element of a one-element array,
\* False for an empty one, ValueError for an array of two or more elements.
ArrayTruth(arr) ==
    IF Cardinality(DOMAIN arr) > 1 THEN "ValueError"
    ELSE IF DOMAIN arr = {} THEN "False"
    ELSE IF \A i \in DOMAIN arr : arr[i] THEN "True" ELSE "False"

BoolTruth(b) == IF b THEN "True" ELSE "False"

\* x and y, the right operand evaluated only when the left one is true.
AndThen(x, y) == IF x = "True" THEN y ELSE x

\* a.__eq__(b)
SubsystemEq(a, b) ==
    AndThen(BoolTruth(a.nodes = b.nodes),
    AndThen(ArrayTruth(ArrayEq(a.past_state, b.past_state)),
    AndThen(ArrayTruth(ArrayEq(a.current_state, b.past_state)),
            BoolTruth(NetworkEq(a.network, b.network)))))

\* state.tostring(): the bytes of the vector, in order.
tostring(state) == [i \in 1 .. N |-> state[i - 1]]

\* a.__hash__(): the hash of a tuple, taken to be the tuple.
SubsystemHash(a) ==
    <<a.nodes, tostring(a.current_state), tostring(a.past_state), a.network>>

\* The subsystems the subsystem is compared with: itself, and those that
\* differ from it in one field.
Others ==
    {Self}
    \cup {[Self EXCEPT !.nodes = n] : n \in SUBSET Nodes}
    \cup {[Self EXCEPT !.current_state = c] : c \in States}
    \cup {[Self EXCEPT !.past_state = q] : q \in States}
    \cup {[Self EXCEPT !.network = k] : k \in Networks}

-----------------------------------------------------------------------------
(* The subsystem and the calls on it *)

NoCall == [op |-> "none"]

\* A mechanism: a list of nodes of the subsystem, none twice.
Mechanisms ==
    {m \in UNION {[1 .. k -> nodes] : k \in 0 .. Cardinality(nodes)} :
        \A i, j \in DOMAIN m : i # j => m[i] # m[j]}

\* A purview: a set of nodes of the network.
Purviews == SUBSET Nodes

\* Subsystem.__init__
Init ==
    /\ network \in Networks
    /\ nodes \in SUBSET Nodes
    /\ current_state \in States
    /\ past_state \in States
    /\ external_nodes = Nodes \ nodes
    /\ last = NoCall
    /\ repeated = FALSE

\* The call has the operation and the arguments of the call before it.
SameCall(a, b) ==
    /\ a.op = b.op
    /\ a.op \notin {"none", "eq"}
    /\ a.mechanism = b.mechanism
    /\ a.purview = b.purview

\* A call returns: it is recorded, and nothing of the subsystem is written.
Returns(call) ==
    /\ last' = call
    /\ repeated' = SameCall(last, last')
    /\ UNCHANGED <<network, nodes, current_state, past_state, external_nodes>>

\* Faulty variant: the table of a mechanism node that is OFF complemented in place.
cause_repertoire_in_place(mechanism, purview) ==
    /\ last' = [op |-> "cause_repertoire", mechanism |-> mechanism,
                purview |-> purview,
                value |-> CauseRepertoire(mechanism, purview),
                tpm_reads |-> CauseTpmReads(mechanism, purview)]
    /\ repeated' = SameCall(last, last')
    /\ network' = [i \in Nodes |->
                     IF i \in Range(mechanism) /\ current_state[i] = 0
                     THEN Complement(NodeTpm(i)).val ELSE network[i]]
    /\ UNCHANGED <<nodes, current_state, past_state, external_nodes>>

cause_repertoire(mechanism, purview) ==
    Returns([op |-> "cause_repertoire", mechanism |-> mechanism,
             purview |-> purview,
             value |-> CauseRepertoire(mechanism, purview),
             tpm_reads |-> CauseTpmReads(mechanism, purview)])

effect_repertoire(mechanism, purview) ==
    Returns([op |-> "effect_repertoire", mechanism |-> mechanism,
             purview |-> purview,
             value |-> EffectRepertoire(mechanism, purview)])

uc_cause_repertoire(purview) ==
    Returns([op |-> "uc_cause_repertoire", mechanism |-> <<>>,
             purview |-> purview,
             value |-> UcCauseRepertoire(purview)])

unconstrained_effect_repertoire(purview) ==
    Returns([op |-> "unconstrained_effect_repertoire", mechanism |-> <<>>,
             purview |-> purview,
             value |-> UnconstrainedEffectRepertoire(purview)])

\* self == other, with the hashes of both.
Compare(other) ==
    Returns([op |-> "eq", other |-> other,
             value |-> SubsystemEq(Self, other),
             hash_self |-> SubsystemHash(Self),
             hash_other |-> SubsystemHash(other)])

\* One call on a freshly built subsystem.
Next ==
    \/ /\ last = NoCall
       /\ \E mechanism \in Mechanisms, purview \in Purviews :
             cause_repertoire(mechanism, purview)
    \/ /\ last = NoCall
       /\ \E mechanism \in Mechanisms, purview \in Purviews :
             effect_repertoire(mechanism, purview)
    \/ /\ last = NoCall
       /\ \E purview \in Purviews : uc_cause_repertoire(purview)
    \/ /\ last = NoCall
       /\ \E purview \in Purviews : unconstrained_effect_repertoire(purview)
    \/ /\ last = NoCall
       /\ \E other \in Others : Compare(other)

Spec == Init /\ [][Next]_vars

\* Any sequence of repertoire calls on one subsystem.
SeqNext ==
    \/ \E mechanism \in Mechanisms, purview \in Purviews :
          cause_repertoire(mechanism, purview)
    \/ \E mechanism \in Mechanisms, purview \in Purviews :
          effect_repertoire(mechanism, purview)
    \/ \E purview \in Purviews : uc_cause_repertoire(purview)
    \/ \E purview \in Purviews : unconstrained_effect_repertoire(purview)

SeqSpec == Init /\ [][SeqNext]_vars

-----------------------------------------------------------------------------
(* Properties *)

IsCause == last.op = "cause_repertoire"

IsEffect == last.op \in {"effect_repertoire", "unconstrained_effect_repertoire"}

\* The entries of a tensor sum to 1.
SumsToOne(t) == IsTensor(t) /\ t.den # 0 /\ TotalSum(t) = t.den

\* C1: effect_repertoire(mechanism, purview) returns a tensor whose entries
\* sum to 1, for every mechanism within the subsystem and every purview
\* within the network, the empty purview included.
C1_EffectSumsToOne ==
    IsEffect => SumsToOne(last.value)

\* What holds of effect_repertoire when the purview is not empty: the entries
\* sum to 1.
EffectSumsToOneOnPurview ==
    (IsEffect /\ last.purview # {}) => SumsToOne(last.value)

\* C2: for a non-empty mechanism and a non-empty purview cause_repertoire
\* returns the accumulated product itself, all zeros, when its total is zero,
\* and a tensor whose entries sum to 1 otherwise.
C2_CauseZeroOrNormalized ==
    (IsCause /\ last.mechanism # <<>> /\ last.purview # {}) =>
        LET acc == CauseAccumulated(last.mechanism, last.purview)
        IN  /\ IsTensor(last.value)
            /\ last.value.axes = last.purview
            /\ IF TotalSum(acc) = 0
               THEN /\ last.value = acc
                    /\ last.value.den # 0
                    /\ \A s \in Index(last.purview) : last.value.val[s] = 0
               ELSE SumsToOne(last.value)

\* A mechanism state of probability zero: the returned tensor is all zeros.
C2_Witness ==
    /\ IsCause /\ last.mechanism # <<>> /\ last.purview # {}
    /\ IsTensor(last.value)
    /\ \A s \in Index(last.purview) : last.value.val[s] = 0

\* A mechanism state of non-zero probability whose repertoire is not uniform.
C2_WitnessNormalized ==
    /\ IsCause /\ last.mechanism # <<>> /\ last.purview # {}
    /\ SumsToOne(last.value)
    /\ \E s, r \in Index(last.purview) : last.value.val[s] # last.value.val[r]

\* C3: without a mechanism the cause repertoire of a non-empty purview gives
\* each of the 2^|purview| joint states of the purview the probability
\* 1 / 2^|purview|.
C3_UcCauseIsMaxEntropy ==
    (/\ last.op \in {"uc_cause_repertoire", "cause_repertoire"}
     /\ last.mechanism = <<>>
     /\ last.purview # {}) =>
        /\ IsTensor(last.value)
        /\ last.value.axes = last.purview
        /\ last.value.den # 0
        /\ \A s \in Index(last.purview) :
              last.value.val[s] * Pow2(Cardinality(last.purview)) = last.value.den

\* uc_cause_repertoire on a purview with a node outside the subsystem, in a
\* network where the effect side is not uniform.
C3_Witness ==
    /\ last.op = "uc_cause_repertoire"
    /\ last.purview \cap external_nodes # {}
    /\ last.purview \cap nodes # {}
    /\ IsTensor(last.value)
    /\ \E p \in last.purview, s \in States : network[p][s] # 1

\* C4: a == b exactly when the node sets, the current states, the past states
\* and the networks of a and b are equal.
C4_EqIffFieldsEqual ==
    last.op = "eq" =>
        (last.value = "True" <=>
            /\ Self.nodes = last.other.nodes
            /\ Self.current_state = last.other.current_state
            /\ Self.past_state = last.other.past_state
            /\ Self.network = last.other.network)

\* C5: effect_repertoire on the empty purview raises nothing and returns the
\* all-singleton tensor of total mass 1.
C5_EffectEmptyPurviewDefined ==
    (IsEffect /\ last.purview = {}) =>
        /\ SumsToOne(last.value)
        /\ last.value.axes = {}

\* C6: cause_repertoire on the empty purview returns the empty array, for an
\* empty mechanism as for any other, and reads no table.
C6_CauseEmptyPurviewSentinel ==
    (last.op \in {"cause_repertoire", "uc_cause_repertoire"} /\ last.purview = {}) =>
        /\ last.value = EmptyArray
        /\ IsCause => last.tpm_reads = {}

\* cause_repertoire on the empty purview with a mechanism.
C6_Witness ==
    /\ IsCause /\ last.purview = {} /\ last.mechanism # <<>>
    /\ last.value = EmptyArray

\* C7: a repertoire call leaves the nodes, both states, the external nodes
\* and every table as they were, and returns what the call before it
\* returned when it has the same arguments.
C7_CallsLeaveSubsystemUnchanged ==
    [][/\ UNCHANGED <<network, nodes, current_state, past_state, external_nodes>>
       /\ SameCall(last, last') => last'.value = last.value]_vars

\* A cause repertoire of a mechanism with a node that is OFF, computed
\* twice in a row.
C7_Witness ==
    /\ repeated
    /\ IsCause
    /\ \E m \in Range(last.mechanism) : current_state[m] = 0
    /\ SumsToOne(last.value)

-----------------------------------------------------------------------------
(* The repertoires in closed form *)

\* The entry of node m's table, conditioned on m's current state, at the
\* network state st.
ConditionedEntry(m, st) ==
    IF current_state[m] = 1 THEN network[m][st] ELSE 2 - network[m][st]

\* Node m's conditioned table at the purview state s: the purview axes at s,
\* the nodes outside the purview and outside the subsystem at their past
\* state, summed over the states u of the nodes of the subsystem outside the
\* purview (the uniform average, times the number of those states).
CauseWeight(m, purview, s) ==
    LET Inside == nodes \ purview
    IN  SumFn([u \in Index(Inside) |->
                 ConditionedEntry(m, [x \in Nodes |->
                     IF x \in purview THEN s[x]
                     ELSE IF x \in nodes THEN u[x]
                     ELSE past_state[x]])],
              Index(Inside))

\* The product over the mechanism's nodes.
CauseProduct(M, purview, s) ==
    ProdFn([m \in M |-> CauseWeight(m, purview, s)], M)

\* C8: with a non-zero total, each entry of cause_repertoire is the product
\* over the mechanism's nodes of the node's conditioned table at the purview
\* state, nodes outside both purview and subsystem fixed to their past state
\* and nodes of the subsystem outside the purview averaged out, divided by
\* the sum of these products over the purview states; the order of the
\* mechanism's nodes does not matter.
C8_CauseIsNormalizedProduct ==
    (/\ IsCause /\ last.mechanism # <<>> /\ last.purview # {}
     /\ IsTensor(last.value)
     /\ TotalSum(last.value) # 0) =>
        LET M == Range(last.mechanism)
            P == last.purview
            total == SumFn([s \in Index(P) |-> CauseProduct(M, P, s)], Index(P))
        IN  /\ last.value.axes = P
            /\ total # 0
            /\ \A s \in Index(P) :
                  last.value.val[s] * total = CauseProduct(M, P, s) * last.value.den

\* A repertoire that is not uniform, with a node outside the purview and the
\* subsystem that was ON in the past and is OFF now, and an external node in
\* the purview or a node averaged out.
C8_Witness ==
    /\ IsCause /\ last.mechanism # <<>> /\ last.purview # {}
    /\ SumsToOne(last.value)
    /\ \E s, r \in Index(last.purview) : last.value.val[s] # last.value.val[r]
    /\ \E x \in external_nodes \ last.purview :
          past_state[x] = 1 /\ current_state[x] = 0

\* A repertoire that is not uniform, of a mechanism of two nodes with a
\* purview node outside the subsystem left free.
C8_WitnessOrder ==
    /\ IsCause /\ Len(last.mechanism) > 1
    /\ last.mechanism[1] > last.mechanism[2]
    /\ SumsToOne(last.value)
    /\ \E s, r \in Index(last.purview) : last.value.val[s] # last.value.val[r]

\* A repertoire that is not uniform, with a node of the subsystem averaged out.
C8_WitnessAveraged ==
    /\ IsCause /\ last.mechanism # <<>> /\ last.purview # {}
    /\ nodes \ last.purview # {}
    /\ SumsToOne(last.value)
    /\ \E s, r \in Index(last.purview) : last.value.val[s] # last.value.val[r]

\* The probability that purview node p takes the value v, times 2 and times
\* the number of states u of the subsystem's nodes outside the mechanism: the
\* nodes of the mechanism and those outside the subsystem at their current
\* state, summed over u.
EffectWeight(p, v, M) ==
    LET Free == nodes \ M
    IN  SumFn([u \in Index(Free) |->
                 LET st == [x \in Nodes |->
                              IF x \in Free THEN u[x] ELSE current_state[x]]
                 IN  IF v = 1 THEN network[p][st] ELSE 2 - network[p][st]],
              Index(Free))

\* C9: each entry of effect_repertoire on a non-empty purview is the product
\* over the purview's nodes p of the probability that p takes its value in
\* the purview state, the nodes of the mechanism and those outside the
\* subsystem fixed to their current state and the other nodes of the
\* subsystem averaged out separately for each p.
C9_EffectIsProductOfMarginals ==
    (/\ last.op = "effect_repertoire" /\ last.purview # {}
     /\ Range(last.mechanism) \subseteq nodes) =>
        LET M == Range(last.mechanism)
            P == last.purview
            scale == 2 * Pow2(Cardinality(nodes \ M))
        IN  /\ IsTensor(last.value)
            /\ last.value.axes = P
            /\ last.value.den # 0
            /\ \A s \in Index(P) :
                  last.value.val[s] * ProdFn([p \in P |-> scale], P)
                    = last.value.den * ProdFn([p \in P |-> EffectWeight(p, s[p], M)], P)

\* A repertoire that is not uniform, of a mechanism whose node is ON now and
\* was OFF in the past, with a node of the subsystem averaged out.
C9_Witness ==
    /\ last.op = "effect_repertoire" /\ last.purview # {}
    /\ \E m \in Range(last.mechanism) : current_state[m] = 1 /\ past_state[m] = 0
    /\ nodes \ Range(last.mechanism) # {}
    /\ SumsToOne(last.value)
    /\ \E s, r \in Index(last.purview) : last.value.val[s] # last.value.val[r]

\* A repertoire that is not uniform, with a node outside the subsystem whose
\* current state differs from its past state.
C9_WitnessExternal ==
    /\ last.op = "effect_repertoire" /\ last.purview # {}
    /\ \E x \in external_nodes : current_state[x] # past_state[x]
    /\ SumsToOne(last.value)
    /\ \E s, r \in Index(last.purview) : last.value.val[s] # last.value.val[r]

\* C10: subsystems that compare equal have equal hashes, and a subsystem
\* equals itself.
C10_EqConsistentWithHash ==
    last.op = "eq" =>
        /\ last.value = "True" => last.hash_self = last.hash_other
        /\ last.other = Self => last.value = "True"

=============================================================================
